---- MODULE Spec2Model ----
(***************************************************************************)
(* A model of ricklib's PNG encoder (src/src/ricklib/pngenerator.py):      *)
(* the _pngEncoder base class, its Grayscale and RGB subclasses, the       *)
(* destination files they write, and the byte-level functions they call    *)
(* (int.to_bytes, zlib.crc32, zlib.compress).                              *)
(*                                                                         *)
(* A byte is an integer in 0..255, a byte string is a sequence of bytes.   *)
(* A 32-bit word (a CRC, an Adler checksum) is kept as its four bytes,     *)
(* most significant first, which is also its to_bytes(4, 'big') form.      *)
(***************************************************************************)
EXTENDS Integers, Sequences, FiniteSets, TLC

(***************************************************************************)
(* Bounds of the model.                                                    *)
(***************************************************************************)
\* the largest number of rows of a pixel grid
MaxRows == 2
\* the largest number of samples (pixels) in a row
MaxCols == 2

(***************************************************************************)
(* Bytes and words.                                                        *)
(***************************************************************************)
Byte == 0..255

\* TLC hands an operator its arguments unevaluated, so a value that is only
\* passed on, step after step, stays pending until the last step and is then
\* computed at a depth that grows with the data.  Evaluated(v) is true of
\* every v and makes TLC compute v where it stands.
Evaluated(v) == v = v

RECURSIVE Pow2(_)
Pow2(n) == IF n = 0 THEN 1 ELSE 2 * Pow2(n - 1)

RECURSIVE XorBits(_, _, _)
\* bitwise exclusive or of the low n bits of a and b
XorBits(a, b, n) ==
    IF n = 0 THEN 0
    ELSE ((a + b) % 2) + 2 * XorBits(a \div 2, b \div 2, n - 1)

\* exclusive or of two 4-bit values, tabulated
XorNib == [a \in 0..15 |-> [b \in 0..15 |-> XorBits(a, b, 4)]]

\* exclusive or of two bytes
Xor8(a, b) == 16 * XorNib[a \div 16][b \div 16] + XorNib[a % 16][b % 16]

\* exclusive or of two 32-bit words
Xor32(u, v) ==
    <<Xor8(u[1], v[1]), Xor8(u[2], v[2]), Xor8(u[3], v[3]), Xor8(u[4], v[4])>>

\* a 32-bit word shifted right by one bit
Shr1(w) ==
    << w[1] \div 2,
       (w[2] \div 2) + 128 * (w[1] % 2),
       (w[3] \div 2) + 128 * (w[2] % 2),
       (w[4] \div 2) + 128 * (w[3] % 2) >>

\* a 32-bit word shifted right by eight bits
Shr8(w) == <<0, w[1], w[2], w[3]>>

RECURSIVE Concat(_)
\* b''.join(parts): the concatenation of a sequence of byte strings
Concat(parts) ==
    IF parts = <<>> THEN <<>> ELSE Head(parts) \o Concat(Tail(parts))

(***************************************************************************)
(* int.to_bytes(length, 'big'): raises OverflowError for a negative value  *)
(* and for one that does not fit in length bytes.                          *)
(***************************************************************************)
RECURSIVE Pow256(_)
Pow256(n) == IF n = 0 THEN 1 ELSE 256 * Pow256(n - 1)

\* a to_bytes that never raises: it keeps the low bytes of the value
to_bytes_ok_unchecked(n, length) == TRUE

\* n.to_bytes(length, 'big') returns (does not raise); length is 1, 2 or 4
\* here, and every integer of the model is below 256^4
to_bytes_ok(n, length) == n >= 0 /\ (length >= 4 \/ n < Pow256(length))

RECURSIVE to_bytes(_, _)
to_bytes(n, length) ==
    IF length = 0 THEN <<>>
    ELSE Append(to_bytes(n \div 256, length - 1), n % 256)

(***************************************************************************)
(* zlib.crc32: the CRC-32 of the PNG and zlib specifications (reflected    *)
(* polynomial EDB88320, initial value and final complement FFFFFFFF).      *)
(***************************************************************************)
CrcPoly == <<237, 184, 131, 32>>
AllOnes == <<255, 255, 255, 255>>

RECURSIVE CrcBits(_, _)
CrcBits(w, k) ==
    IF k = 0 THEN w
    ELSE CrcBits(IF w[4] % 2 = 1 THEN Xor32(CrcPoly, Shr1(w)) ELSE Shr1(w),
                 k - 1)

CrcTable == [n \in Byte |-> CrcBits(<<0, 0, 0, n>>, 8)]

\* one byte more: the table entry of the low byte, and the rest shifted
CrcByte(c, b) == Xor32(CrcTable[Xor8(c[4], b)], Shr8(c))

RECURSIVE CrcUpdate(_, _, _, _)
\* the register c after the bytes data[lo..hi]; the range is walked by
\* halves, which keeps the depth of the evaluation logarithmic
CrcUpdate(c, data, lo, hi) ==
    IF lo > hi THEN c
    ELSE IF lo = hi THEN CrcByte(c, data[lo])
    ELSE LET mid == (lo + hi) \div 2
             left == CrcUpdate(c, data, lo, mid)
         IN  IF Evaluated(left) THEN CrcUpdate(left, data, mid + 1, hi)
             ELSE left

zlib_crc32(data) == Xor32(CrcUpdate(AllOnes, data, 1, Len(data)), AllOnes)

(***************************************************************************)
(* zlib.adler32, the checksum that ends a zlib stream.                     *)
(***************************************************************************)
AdlerBase == 65521

RECURSIVE AdlerSums(_, _, _, _)
\* the sums <<a, b>> after the bytes data[lo..hi], walked by halves
AdlerSums(s, data, lo, hi) ==
    IF lo > hi THEN s
    ELSE IF lo = hi
    THEN LET a == (s[1] + data[lo]) % AdlerBase
         IN  <<a, (s[2] + a) % AdlerBase>>
    ELSE LET mid == (lo + hi) \div 2
             left == AdlerSums(s, data, lo, mid)
         IN  IF Evaluated(left) THEN AdlerSums(left, data, mid + 1, hi)
             ELSE left

zlib_adler32(data) ==
    LET s == AdlerSums(<<1, 0>>, data, 1, Len(data))
    IN  to_bytes(s[2], 2) \o to_bytes(s[1], 2)

(***************************************************************************)
(* zlib.compress(data, level, wbits = MAX_WBITS): a zlib stream, that is a *)
(* two-byte header, one DEFLATE block and the Adler-32 of the data.        *)
(* Level 0 (Z_NO_COMPRESSION) writes a stored block.  Level 9              *)
(* (Z_BEST_COMPRESSION) runs zlib's lazy LZ77 matcher (deflate_slow) and   *)
(* writes the symbols with the fixed Huffman code, or a stored block when  *)
(* that is no longer.  zlib writes a block with a dynamic Huffman code     *)
(* when that is shorter still, which happens from about 18 bytes of data   *)
(* on; the model then keeps the fixed code: another valid stream of the    *)
(* same data.                                                              *)
(***************************************************************************)
Z_NO_COMPRESSION == 0
Z_BEST_COMPRESSION == 9
MIN_MATCH == 3
MAX_MATCH == 258

RECURSIVE BitsLSB(_, _)
\* the low n bits of v, least significant first
BitsLSB(v, n) ==
    IF n = 0 THEN <<>> ELSE <<v % 2>> \o BitsLSB(v \div 2, n - 1)

RECURSIVE BitsMSB(_, _)
\* the low n bits of v, most significant first (Huffman codes)
BitsMSB(v, n) ==
    IF n = 0 THEN <<>> ELSE Append(BitsMSB(v \div 2, n - 1), v % 2)

RECURSIVE BitsValue(_, _, _)
\* the value of the n bits of a bit string from index i, least significant first
BitsValue(bits, i, n) ==
    IF n = 0 THEN 0
    ELSE (IF i <= Len(bits) THEN bits[i] ELSE 0) + 2 * BitsValue(bits, i + 1, n - 1)

\* a bit string as bytes, the first bit in the lowest bit of the first byte,
\* the last byte padded with zero bits
PackBytes(bits) ==
    [k \in 1..((Len(bits) + 7) \div 8) |-> BitsValue(bits, 8 * (k - 1) + 1, 8)]

\* RFC 1951, 3.2.5: base value and extra bits of length codes 257..285
LengthBase == <<3, 4, 5, 6, 7, 8, 9, 10, 11, 13, 15, 17, 19, 23, 27, 31, 35, 43,
                51, 59, 67, 83, 99, 115, 131, 163, 195, 227, 258>>
LengthExtra == <<0, 0, 0, 0, 0, 0, 0, 0, 1, 1, 1, 1, 2, 2, 2, 2, 3, 3, 3, 3,
                 4, 4, 4, 4, 5, 5, 5, 5, 0>>
\* RFC 1951, 3.2.5: base value and extra bits of distance codes 0..29
DistBase == <<1, 2, 3, 4, 5, 7, 9, 13, 17, 25, 33, 49, 65, 97, 129, 193, 257,
              385, 513, 769, 1025, 1537, 2049, 3073, 4097, 6145, 8193, 12289,
              16385, 24577>>
DistExtra == <<0, 0, 0, 0, 1, 1, 2, 2, 3, 3, 4, 4, 5, 5, 6, 6, 7, 7, 8, 8,
               9, 9, 10, 10, 11, 11, 12, 12, 13, 13>>

\* the index of the last base value that is at most v
BaseIndex(base, v) ==
    CHOOSE i \in 1..Len(base) :
        base[i] <= v /\ (i = Len(base) \/ base[i + 1] > v)

\* RFC 1951, 3.2.6: the fixed Huffman code of literal/length symbol 0..287
FixedCode(sym) ==
    IF sym < 144 THEN BitsMSB(48 + sym, 8)
    ELSE IF sym < 256 THEN BitsMSB(400 + (sym - 144), 9)
    ELSE IF sym < 280 THEN BitsMSB(sym - 256, 7)
    ELSE BitsMSB(192 + (sym - 280), 8)

\* an LZ77 symbol: a literal byte (len = 0), or a match of len bytes that
\* start dist bytes back
Literal(b) == [len |-> 0, dist |-> 0, lit |-> b]
Match(l, d) == [len |-> l, dist |-> d, lit |-> 0]

SymbolBits(s) ==
    IF s.len = 0 THEN FixedCode(s.lit)
    ELSE LET i == BaseIndex(LengthBase, s.len)
             j == BaseIndex(DistBase, s.dist)
         IN  FixedCode(256 + i)
               \o BitsLSB(s.len - LengthBase[i], LengthExtra[i])
               \o BitsMSB(j - 1, 5)
               \o BitsLSB(s.dist - DistBase[j], DistExtra[j])

RECURSIVE SymbolsBits(_, _, _)
\* the bits of the symbols syms[lo..hi], walked by halves
SymbolsBits(syms, lo, hi) ==
    IF lo > hi THEN <<>>
    ELSE IF lo = hi THEN SymbolBits(syms[lo])
    ELSE LET mid == (lo + hi) \div 2
         IN  SymbolsBits(syms, lo, mid) \o SymbolsBits(syms, mid + 1, hi)

\* a final block (BFINAL = 1) of type 01, fixed Huffman code, ended by symbol 256
FixedBlockBits(syms) ==
    <<1>> \o BitsLSB(1, 2) \o SymbolsBits(syms, 1, Len(syms)) \o FixedCode(256)

\* how many bytes (at most MAX_MATCH) agree from positions q and p on
RunLen(data, q, p) ==
    LET most == IF Len(data) - p + 1 < MAX_MATCH THEN Len(data) - p + 1
                ELSE MAX_MATCH
    IN  CHOOSE l \in 0..most :
            /\ \A k \in 0..(l - 1) : data[q + k] = data[p + k]
            /\ l = most \/ data[q + l] # data[p + l]

\* the earlier positions the hash chain of position p holds: those whose next
\* MIN_MATCH bytes are the ones at p.  The first byte of the data is position 0
\* of zlib's window, which is the chain's end mark NIL and never a candidate.
Candidates(data, p) ==
    {q \in 2..(p - 1) : RunLen(data, q, p) >= MIN_MATCH}

\* longest_match: the longest candidate that beats prev_len, the most recent
\* one among equals; <<length, start>>
longest_match(data, p, prev_len, prev_start) ==
    LET C == Candidates(data, p)
        best == CHOOSE l \in {RunLen(data, q, p) : q \in C} :
                    \A q \in C : RunLen(data, q, p) <= l
        start == CHOOSE q \in C :
                    /\ RunLen(data, q, p) = best
                    /\ \A r \in C : RunLen(data, r, p) = best => r <= q
    IN  IF best > prev_len THEN <<best, start>> ELSE <<prev_len, prev_start>>

\* One turn of the loop of deflate_slow.  st.p is the position looked at
\* (strstart, 1-based), st.match_len and st.match_start the match found at
\* p - 1, st.avail whether the byte at p - 1 is still to be written
\* (match_available), st.out the symbols written so far.
deflate_step(data, st) ==
    IF st.p > Len(data) THEN st
    ELSE LET p == st.p
             lookahead == Len(data) - p + 1
             found == IF lookahead >= MIN_MATCH /\ Candidates(data, p) # {}
                      THEN longest_match(data, p, st.match_len, st.match_start)
                      ELSE <<MIN_MATCH - 1, st.match_start>>
         IN  IF st.match_len >= MIN_MATCH /\ found[1] <= st.match_len
             THEN \* the match at p - 1 stands
                  [p |-> p + st.match_len - 1, match_len |-> MIN_MATCH - 1,
                   match_start |-> found[2], avail |-> FALSE,
                   out |-> Append(st.out,
                                  Match(st.match_len, (p - 1) - st.match_start))]
             ELSE IF st.avail
             THEN \* a longer match starts at p: the byte at p - 1 is a literal
                  [p |-> p + 1, match_len |-> found[1], match_start |-> found[2],
                   avail |-> TRUE, out |-> Append(st.out, Literal(data[p - 1]))]
             ELSE [p |-> p + 1, match_len |-> found[1], match_start |-> found[2],
                   avail |-> TRUE, out |-> st.out]

RECURSIVE deflate_turns(_, _, _)
\* n turns of the loop, taken by halves
deflate_turns(data, st, n) ==
    IF n = 0 THEN st
    ELSE IF n = 1 THEN deflate_step(data, st)
    ELSE LET half == deflate_turns(data, st, n \div 2)
         IN  IF Evaluated(half) THEN deflate_turns(data, half, n - (n \div 2))
             ELSE half

\* the LZ77 symbols of the data: the loop runs until the data is used up
\* (every turn moves on by a byte at least), then writes a pending literal
deflate_slow(data) ==
    LET st == deflate_turns(data,
                            [p |-> 1, match_len |-> MIN_MATCH - 1,
                             match_start |-> 0, avail |-> FALSE, out |-> <<>>],
                            Len(data))
    IN  IF st.avail THEN Append(st.out, Literal(data[Len(data)])) ELSE st.out

\* a final stored block (type 00): LEN and its complement, low byte first
StoredBlock(data) ==
    LET n == Len(data)
    IN  <<1, n % 256, n \div 256, 255 - (n % 256), 255 - (n \div 256)>> \o data

\* the DEFLATE block of a level
DeflateBlock(data, level) ==
    IF level = Z_NO_COMPRESSION THEN StoredBlock(data)
    ELSE LET bits == FixedBlockBits(deflate_slow(data))
         IN  IF Len(data) + 4 <= (Len(bits) + 7) \div 8
             THEN StoredBlock(data)
             ELSE PackBytes(bits)

\* the zlib header: CMF = 78 (deflate, 32K window), FLG by level
ZlibHeader(level) ==
    IF level = Z_NO_COMPRESSION THEN <<120, 1>> ELSE <<120, 218>>

zlib_compress(data, level) ==
    ZlibHeader(level) \o DeflateBlock(data, level) \o zlib_adler32(data)

(***************************************************************************)
(* The inputs of the model: file names, depths and pixel grids.            *)
(* A str is a sequence of one-character strings.                           *)
(***************************************************************************)
Names == { <<"a", ".", "p", "n", "g">>, <<"a", ".", "j", "p", "g">>,
           <<"p", "n", "g">> }

DepthInputs == {1, 8, 16, 24}

\* how the samples of a grid are filled; k is the index of the sample among
\* the n of the grid, in row, column and channel order
Fills == {"zero", "byte", "word", "over", "neg"}

SampleAt(fill, k, n) ==
    CASE fill = "zero" -> 0
      [] fill = "byte" /\ k = n - 1 -> 255
      [] fill = "word" /\ k = n - 1 -> 256
      [] fill = "word" /\ k = 0 -> 65535
      [] fill = "word" -> 4660 + k
      [] fill = "over" /\ k = n - 1 -> 65536
      [] fill = "neg" /\ k = n - 1 -> 0 - 1
      [] OTHER -> 128 + k

\* the grid of h rows whose last row has lw pixels and whose other rows have
\* w.  A pixel is the sequence of its channel samples: <<v>> for the integer v
\* of a grayscale grid, <<r, g, b>> for the tuple of an RGB grid.
GridOf(channels, h, w, lw, fill) ==
    LET rowlen(r) == IF r = h THEN lw ELSE w
        n == channels * (w * (IF h > 0 THEN h - 1 ELSE 0) + (IF h > 0 THEN lw ELSE 0))
        first(r, c) == channels * (w * (r - 1) + (c - 1))
    IN  [r \in 1..h |->
           [c \in 1..rowlen(r) |->
              [ch \in 1..channels |-> SampleAt(fill, first(r, c) + ch - 1, n)]]]

GridsOf(channels) ==
    {GridOf(channels, h, w, lw, fill) :
        h \in 0..MaxRows, w \in 0..MaxCols, lw \in 0..MaxCols, fill \in Fills}

\* the images a caller holds: a grid of grayscale samples or of RGB triples,
\* and the depth it asks for
Images ==
    [color : {"GRAYSCALE"}, data : GridsOf(1), depth : DepthInputs]
      \cup [color : {"RGB"}, data : GridsOf(3), depth : DepthInputs]

(***************************************************************************)
(* The program state.                                                      *)
(***************************************************************************)
\* the encoder objects of a run
Encoders == {1, 2}

\* the largest reading of the clock: every make() reads it and time passes
MaxClock == 2

VARIABLES
    image,    \* the caller's image: grid, depth and colour mode
    enc,      \* enc[e]: the attributes of encoder object e
    raised,   \* raised[e]: the exception the last call on e ended with
    written,  \* written[e]: the byte strings the last make() of e passed to
              \* self.file.write, in order
    fs,       \* fs[name]: the content of the destination file name
    clock,    \* time.time()
    V,        \* the vertex list of the graph object
    E,        \* the edge list of the graph object
    thrown,   \* the exception the last call on the graph ended with
    call      \* the last method called on the graph, with its arguments

\* the graph object's part of the state
gvars == <<V, E, thrown, call>>

vars == <<image, enc, raised, written, fs, clock, V, E, thrown, call>>

\* the file names open() can create
FileNames == {n \in Names : Len(n) >= 1}

\* a file that does not exist (a content is a sequence of bytes)
Absent == <<0 - 1>>

\* Color(Enum): the value of a member
ColorValue(name) == IF name = "GRAYSCALE" THEN 0 ELSE 2

\* An object: which attributes are set (attrs) and their values; a value that
\* is not set reads as 0, "" or <<>> and is never used.  life is "none" before
\* the constructor runs, "bare" while and after it raises, "built" once it
\* returns, "finalized" after __del__.  file is the attribute self.file:
\* "unset", or the handle's state "open" or "closed".
NoObject ==
    [life |-> "none", attrs |-> {}, depth |-> 0, color_type |-> 0,
     color_type_str |-> "", filename |-> <<>>, data |-> <<>>, width |-> 0,
     height |-> 0, compression |-> 0, file |-> "unset"]

\* s[-k:]
Suffix(s, k) == SubSeq(s, IF Len(s) > k THEN Len(s) - k + 1 ELSE 1, Len(s))

DotPng == <<".", "p", "n", "g">>

(***************************************************************************)
(* _pngEncoder.__init__ (through Grayscale.__init__ or RGB.__init__, which *)
(* only fix color_type): the object after the call and the exception       *)
(* raised, "none" when it returns.                                         *)
(***************************************************************************)
\* a constructor that refuses a grid whose rows differ in length
init_attributes_rows_checked(filename, data, depth, color, compression) ==
    IF Len(data) = 0
    THEN [self |-> [NoObject EXCEPT
                      !.life = "bare",
                      !.attrs = {"depth", "color_type", "color_type_str",
                                 "filename", "data"},
                      !.depth = depth, !.color_type = ColorValue(color),
                      !.color_type_str = color, !.filename = filename,
                      !.data = data],
          raised |-> "IndexError"]
    ELSE IF \E r \in 1..Len(data) : Len(data[r]) # Len(data[1])
    THEN [self |-> [NoObject EXCEPT !.life = "bare"], raised |-> "ValueError"]
    ELSE [self |-> [life |-> "built",
                    attrs |-> {"depth", "color_type", "color_type_str",
                               "filename", "data", "width", "height",
                               "compression"},
                    depth |-> depth, color_type |-> ColorValue(color),
                    color_type_str |-> color, filename |-> filename,
                    data |-> data, width |-> Len(data[1]), height |-> Len(data),
                    compression |-> IF compression THEN Z_BEST_COMPRESSION
                                    ELSE Z_NO_COMPRESSION,
                    file |-> "unset"],
          raised |-> "none"]

\* lines 48-59: the attributes, set once both checks have passed
init_attributes(filename, data, depth, color, compression) ==
    IF Len(data) = 0
    THEN \* len(data[0]) raises after the first five attributes are set
         [self |-> [NoObject EXCEPT
                      !.life = "bare",
                      !.attrs = {"depth", "color_type", "color_type_str",
                                 "filename", "data"},
                      !.depth = depth, !.color_type = ColorValue(color),
                      !.color_type_str = color, !.filename = filename,
                      !.data = data],
          raised |-> "IndexError"]
    ELSE [self |-> [life |-> "built",
                    attrs |-> {"depth", "color_type", "color_type_str",
                               "filename", "data", "width", "height",
                               "compression"},
                    depth |-> depth, color_type |-> ColorValue(color),
                    color_type_str |-> color, filename |-> filename,
                    data |-> data, width |-> Len(data[1]), height |-> Len(data),
                    compression |-> IF compression THEN Z_BEST_COMPRESSION
                                    ELSE Z_NO_COMPRESSION,
                    file |-> "unset"],
          raised |-> "none"]

\* a constructor that takes any whole number of bytes for a depth
__init___depth_by_8(filename, data, depth, color, compression) ==
    IF depth % 8 # 0
    THEN [self |-> [NoObject EXCEPT !.life = "bare"], raised |-> "ValueError"]
    ELSE IF Suffix(filename, 4) # DotPng
    THEN [self |-> [NoObject EXCEPT !.life = "bare"], raised |-> "ValueError"]
    ELSE init_attributes(filename, data, depth, color, compression)

\* a constructor that compares filename[-3:] with 'png'
__init___suffix_3(filename, data, depth, color, compression) ==
    IF depth \notin {8, 16}
    THEN [self |-> [NoObject EXCEPT !.life = "bare"], raised |-> "ValueError"]
    ELSE IF Suffix(filename, 3) # Suffix(DotPng, 3)
    THEN [self |-> [NoObject EXCEPT !.life = "bare"], raised |-> "ValueError"]
    ELSE init_attributes(filename, data, depth, color, compression)

__init__(filename, data, depth, color, compression) ==
    IF depth \notin {8, 16}
    THEN [self |-> [NoObject EXCEPT !.life = "bare"], raised |-> "ValueError"]
    ELSE IF Suffix(filename, 4) # DotPng
    THEN [self |-> [NoObject EXCEPT !.life = "bare"], raised |-> "ValueError"]
    ELSE init_attributes(filename, data, depth, color, compression)

(***************************************************************************)
(* The chunk writer and the steps of make().  Each step is the sequence of *)
(* byte strings it passes to self.file.write.                              *)
(***************************************************************************)
Ascii == [c \in {"I", "H", "D", "R", "A", "T", "E", "N"} |->
            CASE c = "I" -> 73 [] c = "H" -> 72 [] c = "D" -> 68 [] c = "R" -> 82
              [] c = "A" -> 65 [] c = "T" -> 84 [] c = "E" -> 69 [] c = "N" -> 78]

\* str.encode()
encode(str) == [i \in 1..Len(str) |-> Ascii[str[i]]]

IHDR == <<"I", "H", "D", "R">>
IDAT == <<"I", "D", "A", "T">>
IEND == <<"I", "E", "N", "D">>

\* zlib.crc32(data) & 0xffffffff: the low four bytes of the word
_crc32(data) == Suffix(zlib_crc32(data), 4)

\* a chunk writer whose checksum leaves the type code out
_write_chunk_crc_of_payload(chunk_type, data) ==
    << to_bytes(Len(data), 4),
       encode(chunk_type),
       data,
       _crc32(data) >>

_write_chunk(chunk_type, data) ==
    << to_bytes(Len(data), 4),
       encode(chunk_type),
       data,
       _crc32(encode(chunk_type) \o data) >>

PngSignature == <<137, 80, 78, 71, 13, 10, 26, 10>>

_signature == << PngSignature >>

\* a header that records the compression flag in its compression-method byte
_header_flag_in_method(self) ==
    LET width == to_bytes(self.width, 4)
        height == to_bytes(self.height, 4)
        bit_depth == IF self.depth = 8 THEN <<8>> ELSE <<16>>
        color_type == to_bytes(self.color_type, 1)
        compression == IF self.compression = Z_NO_COMPRESSION THEN <<0>>
                       ELSE <<1>>
    IN  _write_chunk(IHDR, width \o height \o bit_depth \o color_type
                             \o compression \o <<0>> \o <<0>>)

\* a header that writes the height before the width
_header_height_first(self) ==
    LET width == to_bytes(self.width, 4)
        height == to_bytes(self.height, 4)
        bit_depth == IF self.depth = 8 THEN <<8>> ELSE <<16>>
        color_type == to_bytes(self.color_type, 1)
    IN  _write_chunk(IHDR, height \o width \o bit_depth \o color_type
                             \o <<0>> \o <<0>> \o <<0>>)

_header(self) ==
    LET width == to_bytes(self.width, 4)
        height == to_bytes(self.height, 4)
        bit_depth == IF self.depth = 8 THEN <<8>> ELSE <<16>>
        color_type == to_bytes(self.color_type, 1)
        compression == <<0>>
        filter_method == <<0>>
        interlace == <<0>>
    IN  _write_chunk(IHDR, width \o height \o bit_depth \o color_type
                             \o compression \o filter_method \o interlace)

byte_size(self) == IF self.depth = 8 THEN 1 ELSE 2

\* the bytes of one pixel: x.to_bytes(byte_size, 'big') for a grayscale
\* sample, the same for r, g and b in turn for an RGB tuple
PixelBytes(col, size) ==
    Concat([ch \in 1..Len(col) |-> to_bytes(col[ch], size)])

\* a row written without its filter byte
RowBytes_no_filter(row, size) ==
    Concat([c \in 1..Len(row) |-> PixelBytes(row[c], size)])

\* one row: the filter byte 0, then the row's pixels
RowBytes(row, size) ==
    <<0>> \o Concat([c \in 1..Len(row) |-> PixelBytes(row[c], size)])

\* the data that Grayscale._imdata and RGB._imdata build before compressing
imdata_raw(self) ==
    Concat([r \in 1..Len(self.data) |-> RowBytes(self.data[r], byte_size(self))])

\* _imdata raises OverflowError: some to_bytes call does
imdata_raises(self) ==
    \E r \in 1..Len(self.data) : \E c \in 1..Len(self.data[r]) :
        \E ch \in 1..Len(self.data[r][c]) :
            ~to_bytes_ok(self.data[r][c][ch], byte_size(self))

_imdata(self) ==
    _write_chunk(IDAT, zlib_compress(imdata_raw(self), self.compression))

_end == _write_chunk(IEND, <<>>)

(***************************************************************************)
(* make().  The destination is reached through open(), thirteen write()    *)
(* calls and close(); the environment may fail any one open() or write()   *)
(* with OSError (a full disk, a missing directory).  io_fail numbers the   *)
(* call that fails: 0 for none, 1 for open(), k + 1 for the k-th write().  *)
(* A write() that returns has put its bytes in the file.                   *)
(***************************************************************************)
\* a make() that builds the image data before it writes anything
make_plan_encode_first(self, start_time) ==
    IF imdata_raises(self)
    THEN [writes |-> <<>>, raised |-> "OverflowError"]
    ELSE [writes |-> _signature \o _header(self) \o _imdata(self) \o _end,
          raised |-> "none"]

\* a make() that stamps the stream with the time it started, in a chunk of
\* type tIME before IEND
make_plan_time_stamped(self, start_time) ==
    IF imdata_raises(self)
    THEN [writes |-> _signature \o _header(self), raised |-> "OverflowError"]
    ELSE [writes |-> _signature \o _header(self) \o _imdata(self)
                       \o << to_bytes(1, 4), <<116, 73, 77, 69>>,
                             <<start_time>>,
                             _crc32(<<116, 73, 77, 69, start_time>>) >>
                       \o _end,
          raised |-> "none"]

\* a make() that calls _end() before _imdata()
make_plan_end_first(self, start_time) ==
    IF imdata_raises(self)
    THEN [writes |-> _signature \o _header(self) \o _end,
          raised |-> "OverflowError"]
    ELSE [writes |-> _signature \o _header(self) \o _end \o _imdata(self),
          raised |-> "none"]

\* the writes of a run no call of which fails, and the exception that ends
\* the run; start_time is the reading of time.time() that make() takes
make_plan(self, start_time) ==
    IF imdata_raises(self)
    THEN [writes |-> _signature \o _header(self), raised |-> "OverflowError"]
    ELSE [writes |-> _signature \o _header(self) \o _imdata(self) \o _end,
          raised |-> "none"]

\* open(filename, 'ab'): the content stays and writes are appended
open_ab(content) == IF content = Absent THEN <<>> ELSE content

\* the content of the file that open(filename, 'wb') leaves: truncated
open_wb(content) == <<>>

\* the I/O calls of the longest run: open() and the writes of the signature
\* and of three chunks
IoCalls == 1 + 1 + 3 * 4

\* a constructor that opens the destination as soon as it has validated
Construct_opening(e, filename, compression) ==
    /\ enc[e].life = "none"
    /\ LET r == __init__(filename, image.data, image.depth, image.color,
                         compression)
       IN  /\ raised' = [raised EXCEPT ![e] = r.raised]
           /\ IF r.raised = "none"
              THEN /\ enc' = [enc EXCEPT ![e] = [r.self EXCEPT
                                   !.file = "open", !.attrs = @ \cup {"file"}]]
                   /\ fs' = [fs EXCEPT ![filename] = open_wb(@)]
              ELSE /\ enc' = [enc EXCEPT ![e] = r.self]
                   /\ fs' = fs
    /\ UNCHANGED <<image, written, clock, V, E, thrown, call>>

Construct(e, filename, compression) ==
    /\ enc[e].life = "none"
    /\ LET r == __init__(filename, image.data, image.depth, image.color,
                         compression)
       IN  /\ enc' = [enc EXCEPT ![e] = r.self]
           /\ raised' = [raised EXCEPT ![e] = r.raised]
    /\ UNCHANGED <<image, written, fs, clock, V, E, thrown, call>>

\* a make() that swallows the error of a failed write and carries on with
\* the next one
make_result_carry_on(plan, io_fail) ==
    LET failed == io_fail # 0 /\ io_fail - 1 <= Len(plan.writes)
    IN  IF io_fail = 1
        THEN [raised |-> "OSError", opened |-> FALSE, writes |-> <<>>,
              file |-> "unset"]
        ELSE [raised |-> plan.raised,
              opened |-> TRUE,
              writes |-> IF failed
                         THEN SubSeq(plan.writes, 1, io_fail - 2)
                                \o SubSeq(plan.writes, io_fail, Len(plan.writes))
                         ELSE plan.writes,
              file |-> IF plan.raised = "none" THEN "closed" ELSE "open"]

\* what a run of make() with the writes and end of plan leaves when call
\* io_fail fails: the exception, the writes that returned, the handle
make_result(plan, io_fail) ==
    LET failed == io_fail # 0 /\ io_fail - 1 <= Len(plan.writes)
        done == IF failed THEN io_fail - 2 ELSE Len(plan.writes)
    IN  IF io_fail = 1
        THEN \* open() raises: self.file is not assigned
             [raised |-> "OSError", opened |-> FALSE, writes |-> <<>>,
              file |-> "unset"]
        ELSE [raised |-> IF failed THEN "OSError" ELSE plan.raised,
              opened |-> TRUE,
              writes |-> SubSeq(plan.writes, 1, done),
              \* _end closes the file after the last write; no other path does
              file |-> IF ~failed /\ plan.raised = "none" THEN "closed"
                       ELSE "open"]

\* faults: the calls the environment may fail in this run of make()
Make(e, faults) ==
    /\ enc[e].life = "built"
    /\ clock < MaxClock
    /\ clock' = clock + 1
    /\ \E plan \in {make_plan(enc[e], clock)} :
         \E io_fail \in {0} \cup faults :
           \E r \in {make_result(plan, io_fail)} :
             /\ raised' = [raised EXCEPT ![e] = r.raised]
             /\ written' = [written EXCEPT ![e] = r.writes]
             /\ IF r.opened
                THEN /\ fs' = [fs EXCEPT ![enc[e].filename] =
                                 open_wb(@) \o Concat(r.writes)]
                     /\ enc' = [enc EXCEPT ![e].file = r.file,
                                           ![e].attrs = @ \cup {"file"}]
                ELSE UNCHANGED <<enc, fs>>
    /\ UNCHANGED <<image, V, E, thrown, call>>

\* __del__: self.file.close()
Del(e) ==
    /\ enc[e].life \in {"bare", "built"}
    /\ IF "file" \in enc[e].attrs
       THEN /\ enc' = [enc EXCEPT ![e].life = "finalized", ![e].file = "closed"]
            /\ raised' = [raised EXCEPT ![e] = "none"]
       ELSE /\ enc' = [enc EXCEPT ![e].life = "finalized"]
            /\ raised' = [raised EXCEPT ![e] = "AttributeError"]
    /\ UNCHANGED <<image, written, fs, clock, V, E, thrown, call>>

Init ==
    /\ image \in Images
    /\ enc = [e \in Encoders |-> NoObject]
    /\ raised = [e \in Encoders |-> "none"]
    /\ written = [e \in Encoders |-> <<>>]
    /\ fs = [n \in FileNames |-> Absent]
    /\ clock = 0
    /\ V = <<>>
    /\ E = <<>>
    /\ thrown = "none"
    /\ call = <<>>

\* one encoder from construction to finalisation, on a destination any call
\* to which may fail
Next ==
    \/ \E filename \in Names, compression \in BOOLEAN :
           Construct(1, filename, compression)
    \/ Make(1, 1..IoCalls)
    \/ Del(1)

Spec == Init /\ [][Next]_vars

\* two encoders built from the same image, on a destination that does not fail
PairNext ==
    \E e \in Encoders :
        \/ \E filename \in Names, compression \in BOOLEAN :
               Construct(e, filename, compression)
        \/ Make(e, {})

PairSpec == Init /\ [][PairNext]_vars

(***************************************************************************)
(* The graph class of src/src/ricklib/glib.py.  A vertex is its name and   *)
(* value, an edge its two vertices, weight and directed flag; a graph is   *)
(* the lists V and E.  Vertices are compared by name, as vertex.__eq__     *)
(* does, so two vertex objects of one name are one record.  Names are the  *)
(* numerals str() gives, on a graph made with integer_names = True.        *)
(***************************************************************************)
\* the largest number of vertices add_vertex lets a graph grow to
MaxVertices == 3
\* the largest order of an imported adjacency matrix
MaxOrder == 2

None == "None"

Digits == <<"0", "1", "2", "3", "4", "5", "6", "7", "8", "9">>

\* str(n) and int(s) for one-digit numerals
str(n) == Digits[n + 1]
int(s) == (CHOOSE k \in 1..Len(Digits) : Digits[k] = s) - 1

vertex(name, value) == [name |-> name, value |-> value]

\* vertex.__eq__ for another vertex
vertex_eq(self, other) == self.name = other.name

edge(v1, v2, weight, directed) ==
    [v1 |-> v1, v2 |-> v2, weight |-> weight, directed |-> directed]

\* edge.__eq__: both branches of the undirected case compare v1 with v1 and
\* v2 with v2
edge_eq(self, other) ==
    IF self.directed
    THEN vertex_eq(self.v1, other.v1) /\ vertex_eq(self.v2, other.v2)
    ELSE \/ (vertex_eq(self.v1, other.v1) /\ vertex_eq(self.v2, other.v2))
         \/ (vertex_eq(self.v1, other.v1) /\ vertex_eq(self.v2, other.v2))

\* list.sort is stable: an element put into a sorted list goes after the
\* elements whose key is not greater
InsertVertex(Vs, x) ==
    LET i == CHOOSE k \in 0..Len(Vs) :
                 /\ \A j \in 1..k : int(Vs[j].name) <= int(x.name)
                 /\ k = Len(Vs) \/ int(Vs[k + 1].name) > int(x.name)
    IN  SubSeq(Vs, 1, i) \o <<x>> \o SubSeq(Vs, i + 1, Len(Vs))

RECURSIVE sort_vertices(_)
\* self.V.sort(key = lambda x: int(x.name))
sort_vertices(Vs) ==
    IF Len(Vs) <= 1 THEN Vs
    ELSE InsertVertex(sort_vertices(SubSeq(Vs, 1, Len(Vs) - 1)), Vs[Len(Vs)])

\* the order of the keys (int(x.v1.name), int(x.v2.name))
EdgeKeyLeq(a, b) ==
    \/ int(a.v1.name) < int(b.v1.name)
    \/ int(a.v1.name) = int(b.v1.name) /\ int(a.v2.name) <= int(b.v2.name)

InsertEdge(Es, x) ==
    LET i == CHOOSE k \in 0..Len(Es) :
                 /\ \A j \in 1..k : EdgeKeyLeq(Es[j], x)
                 /\ k = Len(Es) \/ ~EdgeKeyLeq(Es[k + 1], x)
    IN  SubSeq(Es, 1, i) \o <<x>> \o SubSeq(Es, i + 1, Len(Es))

RECURSIVE sort_edges(_)
sort_edges(Es) ==
    IF Len(Es) <= 1 THEN Es
    ELSE InsertEdge(sort_edges(SubSeq(Es, 1, Len(Es) - 1)), Es[Len(Es)])

RECURSIVE edges_without_source(_, _)
\* a filter that looks at the first endpoint of an edge only
edges_without_source(Es, v) ==
    IF Es = <<>> THEN <<>>
    ELSE (IF ~vertex_eq(Head(Es).v1, v)
          THEN <<Head(Es)>> ELSE <<>>) \o edges_without_source(Tail(Es), v)

RECURSIVE edges_without(_, _)
\* [e for e in self.E if e.v1 != v and e.v2 != v]
edges_without(Es, v) ==
    IF Es = <<>> THEN <<>>
    ELSE (IF ~vertex_eq(Head(Es).v1, v) /\ ~vertex_eq(Head(Es).v2, v)
          THEN <<Head(Es)>> ELSE <<>>) \o edges_without(Tail(Es), v)

\* list.index for a vertex: the first position (from 1) of an equal one
index(Vs, v) ==
    CHOOSE i \in 1..Len(Vs) :
        vertex_eq(Vs[i], v) /\ \A j \in 1..(i - 1) : ~vertex_eq(Vs[j], v)

\* self.V.remove(v): V without the first vertex equal to v
V_remove(Vs, v) ==
    SubSeq(Vs, 1, index(Vs, v) - 1) \o SubSeq(Vs, index(Vs, v) + 1, Len(Vs))

\* a graph value, and what a method leaves: the graph, the value returned
\* and the exception raised
Graph(Vs, Es) == [V |-> Vs, E |-> Es]
Returns(g, value) ==
    [g |-> g, value |-> value, is_none |-> FALSE, raised |-> "none"]
ReturnsNone(g) ==
    [g |-> g, value |-> None, is_none |-> TRUE, raised |-> "none"]
Raises(g, exception) ==
    [g |-> g, value |-> None, is_none |-> TRUE, raised |-> exception]

\* get_vertex(v) for a vertex object: the object when it is in V
get_vertex_object(g, v) ==
    IF \E i \in 1..Len(g.V) : vertex_eq(g.V[i], v) THEN Returns(g, v)
    ELSE Raises(g, "ValueError")

\* get_vertex(v) for any other value: the first vertex named str(v)
get_vertex(g, v) ==
    IF \E i \in 1..Len(g.V) : g.V[i].name = str(v)
    THEN Returns(g, g.V[CHOOSE i \in 1..Len(g.V) :
                          /\ g.V[i].name = str(v)
                          /\ \A j \in 1..(i - 1) : g.V[j].name # str(v)])
    ELSE Raises(g, "ValueError")

add_vertex(g, name, value) ==
    IF name # None /\ \E i \in 1..Len(g.V) : g.V[i].name = name
    THEN Raises(g, "ValueError")
    ELSE LET nm == IF name = None THEN str(Len(g.V)) ELSE name
         IN  ReturnsNone(Graph(sort_vertices(Append(g.V, vertex(nm, value))),
                               g.E))

\* remove_vertex(name); v is never None, get_vertex raises instead
remove_vertex(g, name) ==
    LET found == get_vertex(g, name)
    IN  IF found.raised # "none" THEN found
        ELSE LET v == found.value
             IN  ReturnsNone(Graph(V_remove(g.V, v),
                                   sort_edges(edges_without(g.E, v))))

\* contains_edge(e): some edge of E equals e (True, or None)
contains_edge(g, e) == \E i \in 1..Len(g.E) : edge_eq(g.E[i], e)

\* add_edge once both vertices are found
append_edge(g, v1, v2, weight, directed) ==
    LET e == edge(v1, v2, weight, directed)
    IN  IF contains_edge(g, e) THEN ReturnsNone(g)
        ELSE ReturnsNone(Graph(g.V, sort_edges(Append(g.E, e))))

\* add_edge(v1, v2, weight, directed) for vertex objects
add_edge_objects(g, v1, v2, weight, directed) ==
    IF get_vertex_object(g, v1).raised # "none" THEN get_vertex_object(g, v1)
    ELSE IF get_vertex_object(g, v2).raised # "none"
    THEN get_vertex_object(g, v2)
    ELSE append_edge(g, v1, v2, weight, directed)

\* add_edge(v1, v2, weight, directed) for names
add_edge(g, v1, v2, weight, directed) ==
    IF get_vertex(g, v1).raised # "none" THEN get_vertex(g, v1)
    ELSE IF get_vertex(g, v2).raised # "none" THEN get_vertex(g, v2)
    ELSE append_edge(g, get_vertex(g, v1).value, get_vertex(g, v2).value,
                     weight, directed)

\* get_edge(v1, v2): the first edge that equals the undirected edge(v1, v2),
\* None when there is none
get_edge(g, v1, v2) ==
    IF get_vertex(g, v1).raised # "none" THEN get_vertex(g, v1)
    ELSE IF get_vertex(g, v2).raised # "none" THEN get_vertex(g, v2)
    ELSE LET e1 == edge(get_vertex(g, v1).value, get_vertex(g, v2).value,
                        None, FALSE)
             is(i) == /\ edge_eq(g.E[i], e1)
                      /\ \A j \in 1..(i - 1) : ~edge_eq(g.E[j], e1)
         IN  IF \E i \in 1..Len(g.E) : is(i)
             THEN Returns(g, g.E[CHOOSE i \in 1..Len(g.E) : is(i)])
             ELSE ReturnsNone(g)

\* remove_edge(v1, v2): for an edge that get_edge found, the test e == None
\* is edge.__eq__(e, None), which reads None.v1 and raises AttributeError
\* before anything is removed; for no edge it returns
remove_edge(g, v1, v2) ==
    LET found == get_edge(g, v1, v2)
    IN  IF found.raised # "none" THEN found
        ELSE IF found.is_none THEN ReturnsNone(g)
        ELSE Raises(g, "AttributeError")

RECURSIVE adj_fill(_, _, _)
\* the loop of adj_matrix over the edges from the k-th on
adj_fill(g, adj, k) ==
    IF k > Len(g.E) THEN adj
    ELSE LET e == g.E[k]
             i == index(g.V, e.v1)
             j == index(g.V, e.v2)
             val == IF e.weight = None THEN 1 ELSE e.weight
         IN  adj_fill(g,
                      IF e.directed THEN [adj EXCEPT ![i][j] = val]
                      ELSE [[adj EXCEPT ![i][j] = val] EXCEPT ![j][i] = val],
                      k + 1)

adj_matrix(g) ==
    LET n == Len(g.V)
    IN  adj_fill(g, [i \in 1..n |-> [j \in 1..n |-> 0]], 1)

RECURSIVE import_loop_off_diagonal(_, _, _)
\* loops that pass over the cells of the diagonal
import_loop_off_diagonal(g, adj, k) ==
    LET n == Len(adj)
        i == (k \div n) + 1
        j == (k % n) + 1
    IN  IF k >= n * n THEN ReturnsNone(g)
        ELSE IF adj[i][j] = 0 \/ i = j
        THEN import_loop_off_diagonal(g, adj, k + 1)
        ELSE LET r == add_edge_objects(g, g.V[i], g.V[j], None, FALSE)
             IN  IF r.raised # "none" THEN r
                 ELSE import_loop_off_diagonal(r.g, adj, k + 1)

RECURSIVE import_loop(_, _, _)
\* the loops of import_adj_matrix from cell k on, the cells counted row by
\* row from 0; the first add_edge that raises ends them
import_loop(g, adj, k) ==
    LET n == Len(adj)
        i == (k \div n) + 1
        j == (k % n) + 1
    IN  IF k >= n * n THEN ReturnsNone(g)
        ELSE IF adj[i][j] = 0 THEN import_loop(g, adj, k + 1)
        ELSE LET r == add_edge_objects(g, g.V[i], g.V[j], None, FALSE)
             IN  IF r.raised # "none" THEN r
                 ELSE import_loop(r.g, adj, k + 1)

\* import_adj_matrix(adj), weighted = False
import_adj_matrix(g, adj) ==
    import_loop(Graph([i \in 1..Len(adj) |-> vertex(str(i - 1), None)], <<>>),
                adj, 0)

\* the square 0/1 matrices of order n that equal their transpose
SymmetricMatrices(n) ==
    {A \in [1..n -> [1..n -> {0, 1}]] :
        \A i, j \in 1..n : A[i][j] = A[j][i]}

(***************************************************************************)
(* The calls on one graph object g = graph().                              *)
(***************************************************************************)
\* the names add_vertex is given: None for the automatic one
VertexNames == {None, "0", "1", "2"}
\* the values get_vertex, add_edge, get_edge and remove_vertex are given
VertexKeys == {0, 1, 2}
\* the largest number of edges add_edge lets a graph grow to
MaxEdges == 2

\* the matrices import_adj_matrix is given
Matrices == UNION {SymmetricMatrices(n) : n \in 0..MaxOrder}

\* the graph a call leaves and the exception it ends with
Leaves(r, method) ==
    /\ V' = r.g.V
    /\ E' = r.g.E
    /\ thrown' = r.raised
    /\ call' = method
    /\ UNCHANGED <<image, enc, raised, written, fs, clock>>

AddVertex(name) ==
    /\ Len(V) < MaxVertices
    /\ \E r \in {add_vertex(Graph(V, E), name, None)} :
           Leaves(r, <<"add_vertex", name>>)

RemoveVertex(name) ==
    \E r \in {remove_vertex(Graph(V, E), name)} :
        Leaves(r, <<"remove_vertex", name>>)

AddEdge(v1, v2, directed) ==
    /\ Len(E) < MaxEdges
    /\ \E r \in {add_edge(Graph(V, E), v1, v2, None, directed)} :
           Leaves(r, <<"add_edge", v1, v2, directed>>)

RemoveEdge(v1, v2) ==
    \E r \in {remove_edge(Graph(V, E), v1, v2)} :
        Leaves(r, <<"remove_edge", v1, v2>>)

ImportAdjMatrix(adj) ==
    \E r \in {import_adj_matrix(Graph(V, E), adj)} :
        Leaves(r, <<"import_adj_matrix", adj>>)

\* a new graph; no encoder is made beside it
GraphInit ==
    /\ image = CHOOSE img \in Images : TRUE
    /\ enc = [e \in Encoders |-> NoObject]
    /\ raised = [e \in Encoders |-> "none"]
    /\ written = [e \in Encoders |-> <<>>]
    /\ fs = [n \in FileNames |-> Absent]
    /\ clock = 0
    /\ V = <<>>
    /\ E = <<>>
    /\ thrown = "none"
    /\ call = <<>>

GraphNext ==
    \/ \E name \in VertexNames : AddVertex(name)
    \/ \E name \in VertexKeys : RemoveVertex(name)
    \/ \E v1 \in VertexKeys, v2 \in VertexKeys, directed \in BOOLEAN :
           AddEdge(v1, v2, directed)
    \/ \E v1 \in VertexKeys, v2 \in VertexKeys : RemoveEdge(v1, v2)
    \/ \E adj \in Matrices : ImportAdjMatrix(adj)

GraphSpec == GraphInit /\ [][GraphNext]_vars

(***************************************************************************)
(* Reading a stream back, as a PNG reader does.                            *)
(***************************************************************************)
RECURSIVE from_bytes(_)
\* the number a big-endian byte string stands for
from_bytes(b) ==
    IF Len(b) = 0 THEN 0
    ELSE 256 * from_bytes(SubSeq(b, 1, Len(b) - 1)) + b[Len(b)]

Malformed == [type |-> <<>>, data |-> <<>>, crc |-> <<>>]

RECURSIVE ReadChunks(_, _)
\* the chunks of stream s from position pos on, each found through the
\* length field of the one before
ReadChunks(s, pos) ==
    IF pos > Len(s) THEN <<>>
    ELSE IF pos + 11 > Len(s) THEN <<Malformed>>
    ELSE LET n == from_bytes(SubSeq(s, pos, pos + 3))
         IN  IF pos + 11 + n > Len(s) THEN <<Malformed>>
             ELSE << [type |-> SubSeq(s, pos + 4, pos + 7),
                      data |-> SubSeq(s, pos + 8, pos + 7 + n),
                      crc |-> SubSeq(s, pos + 8 + n, pos + 11 + n)] >>
                  \o ReadChunks(s, pos + 12 + n)

\* the last call on encoder e was a make() that returned
MadeOk(e) ==
    enc[e].life = "built" /\ enc[e].file = "closed" /\ raised[e] = "none"

\* C1: every make() that returns has written, in this order and once each,
\* the 8-byte signature, one IHDR chunk, one IDAT chunk and one IEND chunk,
\* with nothing before the signature and nothing after IEND; the destination
\* holds exactly these bytes.
C1_WriteOrder ==
    \A e \in Encoders :
        MadeOk(e) =>
            LET stream == Concat(written[e])
                chunks == ReadChunks(stream, 9)
            IN  /\ written[e][1] = PngSignature
                /\ SubSeq(stream, 1, 8) = PngSignature
                /\ Len(chunks) = 3
                /\ chunks[1].type = <<73, 72, 68, 82>>
                /\ chunks[2].type = <<73, 68, 65, 84>>
                /\ chunks[3].type = <<73, 69, 78, 68>>
                /\ fs[enc[e].filename] = stream

C1_Witness ==
    /\ MadeOk(1)
    /\ image.color = "RGB"
    /\ Len(image.data) = 2
    /\ Len(image.data[1]) = 2
    /\ Len(fs[enc[1].filename]) > 57

\* the k-th chunk (0, 1, 2) of a write log is complete
ChunkWritten(w, k) == Len(w) >= 5 + 4 * k

\* C2: every chunk that _write_chunk has written (IHDR, IDAT, IEND) is the
\* payload length as 4 bytes big-endian, the 4-byte type code, the payload
\* and the 4-byte big-endian CRC-32 of type code followed by payload; the
\* IEND chunk has length 0 and the CRC of its type code alone.
C2_ChunkFraming ==
    \A e \in Encoders : \A k \in 0..2 :
        ChunkWritten(written[e], k) =>
            LET length == written[e][2 + 4 * k]
                type == written[e][3 + 4 * k]
                payload == written[e][4 + 4 * k]
                crc == written[e][5 + 4 * k]
            IN  /\ Len(length) = 4 /\ from_bytes(length) = Len(payload)
                /\ type = << <<73, 72, 68, 82>>, <<73, 68, 65, 84>>,
                             <<73, 69, 78, 68>> >>[k + 1]
                /\ crc = zlib_crc32(type \o payload)
                /\ k = 2 => /\ length = <<0, 0, 0, 0>>
                            /\ payload = <<>>
                            /\ crc = <<174, 66, 96, 130>>

C2_Witness ==
    /\ ChunkWritten(written[1], 2)
    /\ enc[1].compression = Z_BEST_COMPRESSION
    /\ Len(written[1][8]) > 11
    /\ Len(image.data) = 2

\* no file has been created and encoder e holds no handle
NoOutput(e) ==
    /\ \A n \in FileNames : fs[n] = Absent
    /\ written[e] = <<>>
    /\ enc[e].file = "unset"

\* the name ends in the four characters .png
CarriesPng(name) ==
    /\ Len(name) >= 4
    /\ SubSeq(name, Len(name) - 3, Len(name)) = <<".", "p", "n", "g">>

\* C3: constructing an encoder with a depth other than 8 or 16 raises
\* ValueError, the destination is not opened and no byte is written; with
\* depth 8 or 16 (a .png name, a grid with a row) the constructor returns.
C3_DepthValidated ==
    [][\A e \in Encoders, filename \in Names, compression \in BOOLEAN :
          Construct(e, filename, compression) =>
              IF image.depth \in {8, 16}
              THEN (CarriesPng(filename) /\ Len(image.data) > 0)
                       => /\ raised'[e] = "none"
                          /\ enc'[e].life = "built"
                          /\ enc'[e].depth = image.depth
              ELSE /\ raised'[e] = "ValueError"
                   /\ enc'[e].life = "bare"
                   /\ NoOutput(e)'
      ]_vars

C3_Witness ==
    /\ image.depth = 24
    /\ enc[1].life = "bare"
    /\ raised[1] = "ValueError"
    /\ NoOutput(1)

\* C4: constructing an encoder whose file name does not end in .png raises
\* ValueError and produces no output; a name that ends in .png (with a
\* depth of 8 or 16 and a grid with a row) is accepted.
C4_ExtensionValidated ==
    [][\A e \in Encoders, filename \in Names, compression \in BOOLEAN :
          Construct(e, filename, compression) =>
              IF CarriesPng(filename)
              THEN (image.depth \in {8, 16} /\ Len(image.data) > 0)
                       => /\ raised'[e] = "none"
                          /\ enc'[e].life = "built"
                          /\ enc'[e].filename = filename
              ELSE /\ raised'[e] = "ValueError"
                   /\ enc'[e].life = "bare"
                   /\ NoOutput(e)'
      ]_vars

C4_Witness ==
    /\ image.depth = 16
    /\ Len(image.data) > 0
    /\ enc[1].life = "bare"
    /\ raised[1] = "ValueError"
    /\ NoOutput(1)

\* C5: the handle that make() opened is closed whenever make() has returned
\* or raised, whichever step it failed at.
C5_HandleReleased ==
    \A e \in Encoders : enc[e].file # "open"

\* C6: construction, whether it returns or raises, performs no output: no
\* file is created or written and the object holds no handle afterwards.
C6_ConstructionNoIO ==
    [][\A e \in Encoders, filename \in Names, compression \in BOOLEAN :
          Construct(e, filename, compression) =>
              /\ fs' = fs
              /\ written' = written
              /\ enc'[e].file = "unset"
              /\ "file" \notin enc'[e].attrs
      ]_vars

C6_Witness ==
    /\ enc[1].life = "built"
    /\ clock = 0
    /\ "file" \notin enc[1].attrs
    /\ \A n \in FileNames : fs[n] = Absent

\* every row of the grid has as many pixels as the first
Rectangular(data) == \A r \in 1..Len(data) : Len(data[r]) = Len(data[1])

\* C7: for a rectangular grid the IHDR payload is 13 bytes: the number of
\* columns and the number of rows, each as 4 bytes big-endian, the depth
\* byte 8 or 16 as configured, the colour type 0 for Grayscale and 2 for
\* RGB, then compression, filter and interlace bytes 0.
C7_HeaderPayload ==
    \A e \in Encoders :
        (ChunkWritten(written[e], 0) /\ Rectangular(image.data)) =>
            /\ Len(written[e][4]) = 13
            /\ written[e][4] =
                   <<0, 0, 0, Len(image.data[1]), 0, 0, 0, Len(image.data),
                     image.depth,
                     IF image.color = "GRAYSCALE" THEN 0 ELSE 2,
                     0, 0, 0>>

C7_Witness ==
    /\ ChunkWritten(written[1], 0)
    /\ Len(image.data) = 1
    /\ Len(image.data[1]) = 2
    /\ image.depth = 16
    /\ image.color = "RGB"

\* samples per pixel, bytes per sample
Channels(img) == IF img.color = "GRAYSCALE" THEN 1 ELSE 3
SampleSize(img) == img.depth \div 8

\* the bytes of the scanline of row r
ScanlineLen(img, r) == 1 + Len(img.data[r]) * Channels(img) * SampleSize(img)

RECURSIVE ScanlineStart(_, _)
\* the bytes of the scanlines before row r
ScanlineStart(img, r) ==
    IF r = 1 THEN 0 ELSE ScanlineStart(img, r - 1) + ScanlineLen(img, r - 1)

\* where sample ch of the pixel in row r, column c starts in the raw data
SampleStart(img, r, c, ch) ==
    ScanlineStart(img, r) + 1
        + ((c - 1) * Channels(img) + (ch - 1)) * SampleSize(img) + 1

\* the i-th byte of the raw data of img, read off the layout
LayoutByte(img, i) ==
    LET r == CHOOSE q \in 1..Len(img.data) :
                 /\ ScanlineStart(img, q) < i
                 /\ i <= ScanlineStart(img, q) + ScanlineLen(img, q)
        j == i - ScanlineStart(img, r) - 1
    IN  IF j = 0 THEN 0
        ELSE LET s == (j - 1) \div SampleSize(img)
                 b == (j - 1) % SampleSize(img)
                 v == img.data[r][(s \div Channels(img)) + 1]
                              [(s % Channels(img)) + 1]
             IN  IF SampleSize(img) = 2 /\ b = 0 THEN v \div 256 ELSE v % 256

\* the bytes a zlib stream made of one stored block carries
StoredRaw(payload) == SubSeq(payload, 8, Len(payload) - 4)

\* the raw image data of the last make() of e: read out of the IDAT payload
\* when it is stored, the data handed to zlib.compress otherwise
RawOf(e) ==
    IF enc[e].compression = Z_NO_COMPRESSION THEN StoredRaw(written[e][8])
    ELSE imdata_raw(enc[e])

\* C8: the raw image data is one scanline per row in row order, each a
\* filter byte 0 followed by the row's samples in column order, each sample
\* depth/8 bytes big-endian (RGB: red, green, blue); a rectangular w x h
\* grid gives h * (1 + w * channels * depth/8) bytes.
C8_RawLayout ==
    \A e \in Encoders :
        MadeOk(e) =>
            LET raw == RawOf(e)
                h == Len(image.data)
            IN  /\ Len(raw) = ScanlineStart(image, h) + ScanlineLen(image, h)
                /\ \A i \in 1..Len(raw) : raw[i] = LayoutByte(image, i)
                /\ raw = imdata_raw(enc[e])
                /\ Rectangular(image.data) =>
                       Len(raw) = h * (1 + Len(image.data[1]) * Channels(image)
                                             * (image.depth \div 8))

C8_Witness ==
    /\ MadeOk(1)
    /\ enc[1].compression = Z_NO_COMPRESSION
    /\ image.color = "RGB"
    /\ image.depth = 16
    /\ Len(image.data) = 2
    /\ Len(image.data[1]) = 2
    /\ Len(image.data[2]) = 2
    /\ Len(RawOf(1)) = 26

\* the largest sample of the image's depth
MaxSample(img) == IF img.depth = 8 THEN 255 ELSE 65535

\* some sample of the image does not fit its depth
OutOfRange(img) ==
    \E r \in 1..Len(img.data) : \E c \in 1..Len(img.data[r]) :
        \E ch \in 1..Channels(img) :
            img.data[r][c][ch] < 0 \/ img.data[r][c][ch] > MaxSample(img)

\* C9: a sample between 0 and 2^depth - 1 is encoded exactly (its bytes
\* read back give the sample; 65535 at depth 16 is FF FF, 0 at depth 8 is
\* 00); with a sample outside that range make() raises, writes no image
\* data and never completes: no value is clamped, wrapped or truncated.
C9_SampleRange ==
    \A e \in Encoders :
        (enc[e].life = "built" /\ "file" \in enc[e].attrs) =>
            IF OutOfRange(image)
            THEN /\ ~MadeOk(e)
                 /\ raised[e] \in {"OverflowError", "OSError"}
                 /\ Len(written[e]) <= 5
                 /\ Len(written[e]) = 5 => raised[e] = "OverflowError"
            ELSE MadeOk(e) =>
                   \A r \in 1..Len(image.data) :
                     \A c \in 1..Len(image.data[r]) :
                       \A ch \in 1..Channels(image) :
                         LET at == SampleStart(image, r, c, ch)
                             bytes == SubSeq(RawOf(e), at,
                                             at + SampleSize(image) - 1)
                             v == image.data[r][c][ch]
                         IN  /\ from_bytes(bytes) = v
                             /\ (v = 65535 /\ image.depth = 16)
                                    => bytes = <<255, 255>>
                             /\ (v = 0 /\ image.depth = 8) => bytes = <<0>>

C9_Witness ==
    /\ OutOfRange(image)
    /\ image.depth = 8
    /\ enc[1].life = "built"
    /\ raised[1] = "OverflowError"
    /\ Len(written[1]) = 5

\* C10: two encoders built from the same grid, depth, colour mode and
\* compression flag write the same bytes, whatever the time of each make()
\* and whatever was encoded before.
C10_Deterministic ==
    \A e1, e2 \in Encoders :
        (MadeOk(e1) /\ MadeOk(e2)
            /\ enc[e1].compression = enc[e2].compression) =>
            /\ written[e1] = written[e2]
            \* both wrote the one destination: it holds that stream
            /\ e1 # e2 => fs[enc[e1].filename] = Concat(written[e1])

C10_Witness ==
    /\ MadeOk(1) /\ MadeOk(2)
    /\ enc[1].compression = Z_BEST_COMPRESSION
    /\ enc[2].compression = Z_BEST_COMPRESSION
    /\ clock = 2
    /\ image.color = "RGB"
    /\ Len(image.data) = 2
    /\ Len(written[1][8]) > 11

(***************************************************************************)
(* zlib.decompress, for the streams a reader meets here: one final block,  *)
(* stored or written with the fixed Huffman code (RFC 1950, RFC 1951).     *)
(***************************************************************************)
\* the bits of a byte string, the lowest bit of each byte first
UnpackBits(bytes) ==
    [i \in 1..(8 * Len(bytes)) |->
        (bytes[((i - 1) \div 8) + 1] \div Pow2((i - 1) % 8)) % 2]

RECURSIVE MsbValue(_, _, _)
\* the value of the n bits from index i, most significant first
MsbValue(bits, i, n) ==
    IF n = 0 THEN 0
    ELSE 2 * MsbValue(bits, i, n - 1)
           + (IF i + n - 1 <= Len(bits) THEN bits[i + n - 1] ELSE 0)

\* the literal/length symbol whose fixed code starts at index i, and the
\* length of that code: <<symbol, bits>>
ReadFixedSymbol(bits, i) ==
    LET v7 == MsbValue(bits, i, 7)
        v8 == MsbValue(bits, i, 8)
        v9 == MsbValue(bits, i, 9)
    IN  IF v7 <= 23 THEN <<256 + v7, 7>>
        ELSE IF v8 >= 48 /\ v8 <= 191 THEN <<v8 - 48, 8>>
        ELSE IF v8 >= 192 /\ v8 <= 199 THEN <<280 + (v8 - 192), 8>>
        ELSE <<144 + (v9 - 400), 9>>

\* one symbol of a fixed-code block read and carried out; st.pos is the next
\* bit, st.out the bytes produced, st.done whether symbol 256 was read
InflateStep(bits, st) ==
    IF st.done \/ st.pos > Len(bits) THEN [st EXCEPT !.done = TRUE]
    ELSE LET sym == ReadFixedSymbol(bits, st.pos)
             p1 == st.pos + sym[2]
         IN  IF sym[1] < 256
             THEN [pos |-> p1, out |-> Append(st.out, sym[1]), done |-> FALSE]
             ELSE IF sym[1] = 256
             THEN [pos |-> p1, out |-> st.out, done |-> TRUE]
             ELSE LET i == sym[1] - 256
                      len == LengthBase[i] + BitsValue(bits, p1, LengthExtra[i])
                      p2 == p1 + LengthExtra[i]
                      j == MsbValue(bits, p2, 5) + 1
                      dist == DistBase[j] + BitsValue(bits, p2 + 5, DistExtra[j])
                      from == Len(st.out) - dist
                  IN  [pos |-> p2 + 5 + DistExtra[j],
                       out |-> st.out \o
                               [k \in 1..len |->
                                   st.out[from + 1 + ((k - 1) % dist)]],
                       done |-> FALSE]

RECURSIVE InflateTurns(_, _, _)
\* n symbols read, taken by halves
InflateTurns(bits, st, n) ==
    IF n = 0 THEN st
    ELSE IF n = 1 THEN InflateStep(bits, st)
    ELSE LET half == InflateTurns(bits, st, n \div 2)
         IN  IF Evaluated(half) THEN InflateTurns(bits, half, n - (n \div 2))
             ELSE half

\* the data of a zlib stream: two header bytes, the block, four bytes of
\* Adler-32.  A code has seven bits at least, so a block of n bits holds
\* fewer than n symbols.
zlib_decompress(stream) ==
    LET block == SubSeq(stream, 3, Len(stream) - 4)
        type == (block[1] \div 2) % 4
    IN  IF type = 0
        THEN SubSeq(block, 6, 5 + block[2] + 256 * block[3])
        ELSE LET bits == UnpackBits(block)
             IN  InflateTurns(bits, [pos |-> 4, out |-> <<>>, done |-> FALSE],
                              (Len(bits) \div 7) + 1).out

\* C11: for the same grid, depth and colour mode the compression flag
\* changes the IDAT payload only, and with it the IDAT length and CRC: the
\* signature, the IHDR chunk and the IEND chunk are the same with the flag
\* off and on, and both IDAT payloads decompress to the same raw scanlines.
C11_FlagChangesIdatOnly ==
    \A e1, e2 \in Encoders :
        (MadeOk(e1) /\ MadeOk(e2)
            /\ enc[e1].compression = Z_NO_COMPRESSION
            /\ enc[e2].compression = Z_BEST_COMPRESSION) =>
            /\ SubSeq(written[e1], 1, 5) = SubSeq(written[e2], 1, 5)
            /\ written[e1][7] = written[e2][7]
            /\ SubSeq(written[e1], 10, 13) = SubSeq(written[e2], 10, 13)
            /\ zlib_decompress(written[e1][8]) = zlib_decompress(written[e2][8])
            /\ zlib_decompress(written[e2][8]) = imdata_raw(enc[e2])
            /\ \A i \in 1..Len(imdata_raw(enc[e2])) :
                   zlib_decompress(written[e1][8])[i] = LayoutByte(image, i)

C11_Witness ==
    /\ MadeOk(1) /\ MadeOk(2)
    /\ enc[1].compression = Z_NO_COMPRESSION
    /\ enc[2].compression = Z_BEST_COMPRESSION
    /\ Len(written[2][8]) < Len(written[1][8])
    /\ (written[2][8][3] \div 2) % 4 = 1
    /\ Len(image.data) = 2

\* C12: every encoder the constructor returns has width >= 1 and
\* height >= 1, so that no IHDR with a zero dimension can be written.
C12_PositiveDimensions ==
    \A e \in Encoders :
        enc[e].life = "built" => enc[e].width >= 1 /\ enc[e].height >= 1

\* the writes of a complete stream: the signature and three chunks
StreamWrites == IoCalls - 1

\* C13: a failure at any step of make() (open, or a write of the signature,
\* of IHDR, of IDAT or of IEND) ends the call with the error: the writes
\* made are those before the failed step and no more, nothing is written
\* again, no IEND chunk is written after the failed step, and a call that did
\* not make every write did not return normally.
C13_FailureAborts ==
    \A e \in Encoders :
        (enc[e].life = "built" /\ clock > 0) =>
            /\ raised[e] = "none" <=>
                   (Len(written[e]) = StreamWrites /\ enc[e].file = "closed")
            /\ raised[e] # "none" =>
                   /\ raised[e] \in {"OSError", "OverflowError"}
                   /\ Len(written[e]) < StreamWrites
                   /\ IF Len(written[e]) <= 5
                      THEN written[e] = SubSeq(_signature \o _header(enc[e]),
                                               1, Len(written[e]))
                      ELSE written[e] = SubSeq(make_plan(enc[e], 0).writes,
                                               1, Len(written[e]))
                   \* no IEND chunk, and IEND bytes only from a failed IEND step
                   /\ ~ChunkWritten(written[e], 2)
                   /\ \A k \in 1..Len(written[e]) :
                          written[e][k] = <<73, 69, 78, 68>> => k = 11
                   /\ written[e] # <<>> =>
                          fs[enc[e].filename] = Concat(written[e])

C13_Witness ==
    /\ enc[1].life = "built"
    /\ raised[1] = "OSError"
    /\ Len(written[1]) = 10
    /\ fs[enc[1].filename] = Concat(written[1])
    /\ enc[1].file = "open"

\* C16: rows of unequal length are not checked: for such a grid (samples in
\* range, depth 8 or 16, a .png name) the constructor returns an encoder
\* whose width is the length of the first row and whose height is the number
\* of rows, and make() returns having written that width in IHDR and, for
\* each row, a scanline of that row's own samples.
C16_RaggedRows ==
    [][\A e \in Encoders :
          (~Rectangular(image.data) /\ image.depth \in {8, 16}) =>
              /\ \A filename \in Names, compression \in BOOLEAN :
                     (CarriesPng(filename)
                          /\ Construct(e, filename, compression)) =>
                         /\ raised'[e] = "none"
                         /\ enc'[e].life = "built"
                         /\ enc'[e].width = Len(image.data[1])
                         /\ enc'[e].height = Len(image.data)
              /\ (~OutOfRange(image) /\ Make(e, {})) =>
                     /\ MadeOk(e)'
                     /\ SubSeq(written'[e][4], 1, 8) =
                            <<0, 0, 0, Len(image.data[1]),
                              0, 0, 0, Len(image.data)>>
                     /\ \A r \in 1..Len(image.data) :
                            SubSeq(imdata_raw(enc[e]),
                                   ScanlineStart(image, r) + 1,
                                   ScanlineStart(image, r)
                                       + ScanlineLen(image, r))
                              = <<0>> \o Concat([c \in 1..Len(image.data[r]) |->
                                    Concat([ch \in 1..Channels(image) |->
                                      IF image.depth = 8
                                      THEN <<image.data[r][c][ch]>>
                                      ELSE <<image.data[r][c][ch] \div 256,
                                             image.data[r][c][ch] % 256>>])])
                     /\ enc[e].compression = Z_NO_COMPRESSION =>
                            StoredRaw(written'[e][8]) = imdata_raw(enc[e])
      ]_vars

C16_Witness ==
    /\ MadeOk(1)
    /\ Len(image.data) = 2
    /\ Len(image.data[1]) = 2
    /\ Len(image.data[2]) = 1
    /\ image.color = "RGB"
    /\ written[1][4][4] = 2
    /\ Len(RawOf(1)) = 2 + 3 * 3 * SampleSize(image)

\* C17: when make() raises OverflowError (a sample does not fit the depth)
\* the destination holds the signature and the complete IHDR chunk and
\* nothing else, no IDAT and no IEND, and the handle is still open.
C17_OverflowState ==
    \A e \in Encoders :
        (enc[e].life = "built" /\ raised[e] = "OverflowError") =>
            LET stream == fs[enc[e].filename]
                chunks == ReadChunks(stream, 9)
            IN  /\ OutOfRange(image)
                /\ Len(written[e]) = 5
                /\ stream = Concat(written[e])
                /\ SubSeq(stream, 1, 8) = PngSignature
                /\ Len(chunks) = 1
                /\ chunks[1].type = <<73, 72, 68, 82>>
                /\ Len(chunks[1].data) = 13
                /\ chunks[1].crc = zlib_crc32(chunks[1].type \o chunks[1].data)
                /\ Len(stream) = 8 + 25
                /\ enc[e].file = "open"

C17_Witness ==
    /\ enc[1].life = "built"
    /\ raised[1] = "OverflowError"
    /\ image.color = "RGB"
    /\ image.depth = 16
    /\ Len(fs[enc[1].filename]) = 33

\* C18: make() can be repeated: a make() that returns after a make() that
\* returned leaves the destination with the same single complete stream
\* (signature, IHDR, IDAT, IEND) it held, the earlier content replaced and
\* not added to, and the handle closed.
C18_Repeatable ==
    [][\A e \in Encoders :
          (MadeOk(e) /\ Make(e, {})) =>
              /\ MadeOk(e)'
              /\ fs'[enc[e].filename] = fs[enc[e].filename]
              /\ fs'[enc[e].filename] = Concat(written'[e])
              /\ Len(ReadChunks(fs'[enc[e].filename], 9)) = 3
              /\ enc'[e].file = "closed"
      ]_vars

C18_Witness ==
    /\ MadeOk(1)
    /\ clock = 2
    /\ Len(written[1]) = StreamWrites
    /\ fs[enc[1].filename] = Concat(written[1])
    /\ Len(image.data) = 2

\* C19: __del__ ends without an error in every state an encoder can be in:
\* construction failed, constructed and make() never called, make() failed
\* to open the destination, make() failed after opening, make() returned.
C19_FinalizerSafe ==
    \A e \in Encoders : enc[e].life = "finalized" => raised[e] = "none"


(***************************************************************************)
(* The graph object as its caller finds it.                                *)
(***************************************************************************)
\* the graph object's lists as one value
TheGraph == Graph(V, E)

\* the last call read a matrix into the graph
Imported == Len(call) = 2 /\ call[1] = "import_adj_matrix"

\* the two names an edge joins, in either order
Ends(e) == {e.v1.name, e.v2.name}

\* C14: edge equality respects directedness.  Two undirected edges of the
\* graph are equal exactly when they join the same unordered pair of
\* vertices; in a graph imported from a symmetric adjacency matrix
\* get_edge(u, v) and get_edge(v, u) both find an edge and the two are equal,
\* for every adjacent u and v; two directed edges of the graph whose source
\* and destination are swapped, between different vertices, are not equal.
C14_EdgeEquality ==
    /\ \A i, j \in 1..Len(E) :
           (~E[i].directed /\ ~E[j].directed) =>
               (edge_eq(E[i], E[j]) <=> Ends(E[i]) = Ends(E[j]))
    /\ Imported =>
           \A u, v \in 0..(Len(V) - 1) :
               call[2][u + 1][v + 1] # 0 =>
                   /\ ~get_edge(TheGraph, u, v).is_none
                   /\ ~get_edge(TheGraph, v, u).is_none
                   /\ edge_eq(get_edge(TheGraph, u, v).value,
                              get_edge(TheGraph, v, u).value)
    /\ \A i, j \in 1..Len(E) :
           (/\ E[i].directed /\ E[j].directed
            /\ E[i].v1.name # E[i].v2.name
            /\ E[i].v1.name = E[j].v2.name /\ E[i].v2.name = E[j].v1.name) =>
               ~edge_eq(E[i], E[j])

\* C15: the adjacency matrix makes a round trip.  When the last call was
\* import_adj_matrix(A) with a square symmetric 0/1 matrix A, it raised
\* nothing, adj_matrix() is A and the vertices are one per row of A, named
\* "0" to "n-1" in this order.
C15_MatrixRoundTrip ==
    Imported =>
        \A adj \in {call[2]} :
            /\ adj \in Matrices
            /\ thrown = "none"
            /\ adj_matrix(TheGraph) = adj
            /\ Len(V) = Len(adj)
            /\ \A i \in 1..Len(V) :
                   V[i].name = str(i - 1) /\ int(V[i].name) = i - 1

\* a matrix of the largest order with an edge, a loop and a vertex without
\* a loop was read in and is what adj_matrix() gives
C15_Witness ==
    /\ Imported
    /\ Len(call[2]) = MaxOrder
    /\ \E i, j, k \in 1..Len(call[2]) :
           /\ i # j
           /\ call[2][i][j] = 1
           /\ call[2][i][i] = 1
           /\ call[2][k][k] = 0
    /\ Len(V) = MaxOrder
    /\ Len(E) > MaxOrder
    /\ adj_matrix(TheGraph) = call[2]

\* C20: the names of the vertices of the graph are pairwise distinct, after
\* any sequence of add_vertex (with a name or without), remove_vertex and
\* import_adj_matrix calls.
C20_DistinctNames ==
    \A i, j \in 1..Len(V) : V[i].name = V[j].name => i = j


\* the name is the name of a vertex of the list
Named(Vs, name) == \E i \in 1..Len(Vs) : Vs[i].name = name

\* the list without its k-th element
Without(s, k) == SubSeq(s, 1, k - 1) \o SubSeq(s, k + 1, Len(s))

\* the edge of the list has the name at one of its ends
Incident(e, name) == e.v1.name = name \/ e.v2.name = name

\* C21: the endpoints of the edges stay in the graph.  After every call both
\* endpoints of every edge in E are vertices in V.  A call add_edge(v1, v2)
\* with an endpoint that names no vertex raises ValueError and changes
\* nothing; with both endpoints in the graph it leaves V alone and adds at
\* most the edge from v1 to v2.  A call remove_vertex(v) for a vertex of the
\* graph takes the first vertex named v out of V and every edge incident to
\* v out of E, and leaves the other vertices and the other edges as they
\* were, in their order; for no such vertex it raises ValueError and changes
\* nothing.
C21_EndpointsInGraph ==
    [][/\ \A i \in 1..Len(E') :
              Named(V', E'[i].v1.name) /\ Named(V', E'[i].v2.name)
       /\ (Len(call') = 4 /\ call'[1] = "add_edge") =>
              IF Named(V, str(call'[2])) /\ Named(V, str(call'[3]))
              THEN /\ thrown' = "none"
                   /\ V' = V
                   /\ \/ E' = E
                      \/ /\ Len(E') = Len(E) + 1
                         /\ \E k \in 1..Len(E') :
                                /\ Without(E', k) = E
                                /\ E'[k].v1.name = str(call'[2])
                                /\ E'[k].v2.name = str(call'[3])
                                /\ E'[k].directed = call'[4]
              ELSE thrown' = "ValueError" /\ V' = V /\ E' = E
       /\ (Len(call') = 2 /\ call'[1] = "remove_vertex") =>
              IF Named(V, str(call'[2]))
              THEN /\ thrown' = "none"
                   /\ \E k \in 1..Len(V) :
                          /\ V[k].name = str(call'[2])
                          /\ \A j \in 1..(k - 1) : V[j].name # str(call'[2])
                          /\ V' = Without(V, k)
                   /\ \A i \in 1..Len(E') : ~Incident(E'[i], str(call'[2]))
                   /\ \E keep \in SUBSET (1..Len(E)) :
                          /\ \A i \in 1..Len(E) :
                                 i \in keep <=> ~Incident(E[i], str(call'[2]))
                          /\ Len(E') = Cardinality(keep)
                          /\ \A i \in 1..Len(E') :
                                 \E k \in keep :
                                     /\ E'[i] = E[k]
                                     /\ Cardinality({j \in keep : j <= k}) = i
              ELSE thrown' = "ValueError" /\ V' = V /\ E' = E
      ]_vars

\* remove_vertex took a vertex out of a graph and left a vertex and an edge
\* behind
C21_Witness ==
    /\ Len(call) = 2
    /\ call[1] = "remove_vertex"
    /\ thrown = "none"
    /\ ~Named(V, str(call[2]))
    /\ Len(V) >= 1
    /\ Len(E) >= 1
    /\ \A i \in 1..Len(E) : Named(V, E[i].v1.name) /\ Named(V, E[i].v2.name)

====
